---- MODULE Spec2Model ----
(***************************************************************************)
(* Model of vpype's `read` command (src/vpype/read.py): the extraction of  *)
(* polylines from an SVG document.  One run of the command is one          *)
(* behaviour: the command-line option is parsed, the document is loaded,   *)
(* the viewBox transform is resolved, and every segment of every flattened *)
(* path is linearized, scaled and appended to ls_array.                    *)
(*                                                                         *)
(* Numbers are exact rationals <<n, d>> in lowest terms with d > 0; the    *)
(* rounding of binary floating point is not modelled.  A complex number is *)
(* a pair <<re, im>> of rationals.                                         *)
(***************************************************************************)
EXTENDS Integers, Sequences, FiniteSets, TLC

\* Bounds of the explored inputs.
\* segment points lie on the grid points <<k, MaxCoord - k>>
MaxCoord == 2
\* largest segment length returned by elem.length()
MaxLen == 3
\* largest --quantization value given in px
MaxQ == 2
\* largest number of paths, and of segments, of a multi-segment document
MaxSegs == 2
\* largest number in a width / height attribute
MaxDim == 1
\* largest minX / minY of a viewBox
MaxMin == 1
\* largest third / fourth value of a viewBox
MaxVb == 2

(***************************************************************************)
(* Arithmetic                                                              *)
(***************************************************************************)
Abs(x) == IF x < 0 THEN -x ELSE x

RECURSIVE Gcd(_, _)
Gcd(a, b) == IF b = 0 THEN a ELSE Gcd(b, a % b)

\* The rational n/d (d # 0) in lowest terms with a positive denominator.
Rat(n, d) ==
    LET g == Gcd(Abs(n), Abs(d))
        s == IF d < 0 THEN -1 ELSE 1
    IN  <<(s * n) \div g, (s * d) \div g>>

FromInt(k) == <<k, 1>>

RatAdd(a, b) == Rat(a[1] * b[2] + b[1] * a[2], a[2] * b[2])

RatSub(a, b) == Rat(a[1] * b[2] - b[1] * a[2], a[2] * b[2])

RatMul(a, b) == Rat(a[1] * b[1], a[2] * b[2])

\* a / b for b # 0; the callers raise ZeroDivisionError before dividing by 0.
RatDiv(a, b) == Rat(a[1] * b[2], a[2] * b[1])

\* math.ceil of a rational
Ceil(a) == -((-a[1]) \div a[2])

\* a rational times a complex number
CxScale(r, z) == <<RatMul(r, z[1]), RatMul(r, z[2])>>

CxAdd(z1, z2) == <<RatAdd(z1[1], z2[1]), RatAdd(z1[2], z2[2])>>

\* An array cell that np.empty allocated and nothing has written.
Uninit == <<<<0, 0>>, <<0, 0>>>>

\* Placeholder of a local variable that is not bound yet.
Unbound == <<0, 0>>

(***************************************************************************)
(* Lengths with units (vpype.utils)                                        *)
(***************************************************************************)
Units == {"px", "mm"}

\* px per unit: 1 mm = 96 / 25.4 px
UnitFactor(u) == IF u = "mm" THEN Rat(480, 127) ELSE FromInt(1)

\* utils.convert: a length string such as "210mm" to px
convert(s) == RatMul(FromInt(s.n), UnitFactor(s.unit))

\* A length type that converts and accepts every value
LengthAnySign(s) == [ok |-> TRUE, value |-> convert(s)]

\* utils.Length, the click type of --quantization: the converted value, or a
\* usage error for a value that is not positive.
Length(s) ==
    LET v == convert(s)
    IN  [ok |-> v[1] > 0, value |-> v]

\* The default of the option
QuantizationDefault == [n |-> 1, unit |-> "mm"]

\* The values given to -q / --quantization
QuantizationArgs ==
    {[n |-> k, unit |-> "px"] : k \in (-1)..MaxQ} \cup {QuantizationDefault}

\* The click option: its value goes through the Length type before read runs.
QuantizationOption(s) == Length(s)

(***************************************************************************)
(* Path segments (svgpathtools)                                            *)
(***************************************************************************)
Pts == {<<k, MaxCoord - k>> : k \in 0..MaxCoord}

Dist2(p, q) == (p[1] - q[1]) * (p[1] - q[1]) + (p[2] - q[2]) * (p[2] - q[2])

\* the least k with k * k >= n
CeilSqrt(n) == CHOOSE k \in 0..n : k * k >= n /\ \A j \in 0..(k - 1) : j * j < n

Lines == {[kind |-> "Line", start |-> s, end |-> e] : s \in Pts, e \in Pts}

\* A curved segment is a quadratic Bezier with its length() in whole px: zero
\* exactly when the curve is a single point, never shorter than the chord
\* and never longer than the control polygon.
Curves ==
    {c \in [kind : {"QuadraticBezier"}, start : Pts, control : Pts, end : Pts,
            len : 0..MaxLen] :
        /\ (c.len = 0) <=> (c.start = c.control /\ c.control = c.end)
        /\ c.len * c.len >= Dist2(c.start, c.end)
        /\ c.len <= CeilSqrt(Dist2(c.start, c.control))
                      + CeilSqrt(Dist2(c.control, c.end))}

Segments == Lines \cup Curves

IsLine(elem) == elem.kind = "Line"

\* elem.start, elem.end: complex numbers
Start(elem) == <<FromInt(elem.start[1]), FromInt(elem.start[2])>>

End(elem) == <<FromInt(elem.end[1]), FromInt(elem.end[2])>>

Control(elem) == <<FromInt(elem.control[1]), FromInt(elem.control[2])>>

\* elem.length()
SegLength(elem) == FromInt(elem.len)

\* elem.point(t) = (1-t)^2 start + 2 (1-t) t control + t^2 end
Point(elem, t) ==
    LET u == RatSub(FromInt(1), t)
    IN  CxAdd(CxAdd(CxScale(RatMul(u, u), Start(elem)),
                    CxScale(RatMul(FromInt(2), RatMul(u, t)), Control(elem))),
              CxScale(RatMul(t, t), End(elem)))

(***************************************************************************)
(* Documents: doc.flatten_all_paths() and doc.tree.getroot()               *)
(***************************************************************************)
\* The sequences of at most n elements of S
RECURSIVE SeqsUpTo(_, _)
SeqsUpTo(S, n) ==
    IF n = 0 THEN {<<>>}
    ELSE LET shorter == SeqsUpTo(S, n - 1)
         IN  shorter \cup {Append(q, x) : q \in shorter, x \in S}

RECURSIVE Flatten(_)
Flatten(paths) == IF paths = <<>> THEN <<>> ELSE Head(paths) \o Flatten(Tail(paths))

\* A document as the list of its flattened paths, each the list of its segments.
SingleDocs(S) == {<< <<s>> >> : s \in S}

\* The documents of at most k paths and at most MaxSegs segments in all
RECURSIVE DocsUpTo(_, _)
DocsUpTo(S, k) ==
    IF k = 0 THEN {<<>>}
    ELSE LET fewer == DocsUpTo(S, k - 1)
         IN  fewer \cup UNION {{Append(d, p) : p \in SeqsUpTo(S, MaxSegs - Len(Flatten(d)))} :
                                  d \in fewer}

MultiDocs(S) == DocsUpTo(S, MaxSegs)

\* One straight line, one open curve, one closed curve and one curve that is a
\* single point.
DocSegments ==
    LET a == <<0, MaxCoord>>
        b == <<MaxCoord, 0>>
    IN  {[kind |-> "Line", start |-> a, end |-> b],
         [kind |-> "QuadraticBezier", start |-> a, control |-> a, end |-> b,
          len |-> CeilSqrt(Dist2(a, b))],
         [kind |-> "QuadraticBezier", start |-> b, control |-> a, end |-> b, len |-> MaxLen],
         [kind |-> "QuadraticBezier", start |-> a, control |-> a, end |-> a, len |-> 0]}

LengthAttrs == [n : 1..MaxDim, unit : Units]

\* The viewBox attribute "minX minY vbWidth vbHeight" as its four numbers
ViewBoxes == {<<x, y, vw, vh>> : x \in 0..MaxMin, y \in 0..MaxMin, vw \in 0..MaxVb, vh \in 0..MaxVb}

\* The attributes of the root element read by the command.  With a viewBox
\* the element carries width and height as well, and the viewBox holds four
\* numbers; a root element without them ends the run in a KeyError, ValueError
\* or IndexError before any segment is read.
Roots ==
    {r \in [hasViewBox : BOOLEAN, viewBox : ViewBoxes, width : LengthAttrs,
            height : LengthAttrs] :
        r.hasViewBox \/ r.viewBox = <<0, 0, 0, 0>>}

NoRoot == [hasViewBox |-> FALSE, viewBox |-> <<0, 0, 0, 0>>,
           width |-> [n |-> 1, unit |-> "px"], height |-> [n |-> 1, unit |-> "px"]]

\* A few root elements: without a viewBox, with an empty viewBox, and with a
\* viewBox at the origin.
FewRoots ==
    {r \in Roots :
        /\ r.width = r.height
        /\ r.viewBox \in {<<0, 0, 0, 0>>, <<0, 0, MaxVb, MaxVb>>}}

\* The files read: every document of one segment and every document of the
\* representative segments with a few root elements, and every root element
\* with the documents of one representative segment.
Files ==
    ((SingleDocs(Segments) \cup MultiDocs(DocSegments)) \X FewRoots)
        \cup (SingleDocs(DocSegments) \X Roots)

(***************************************************************************)
(* The state of one run of read                                            *)
(***************************************************************************)
VARIABLES
    pc,            \* position of the run
    arg,           \* the value given to --quantization
    quantization,  \* the parameter of read
    results,       \* doc.flatten_all_paths(), as the list of the paths
    root,          \* doc.tree.getroot()
    scale_x, scale_y, offset_x, offset_y,
    ri, ei,        \* positions of the loops over results and over result.path
    step,          \* step of the last curved segment
    coords,        \* the complex array of the segment in hand
    evals,         \* the elem.point calls of the segment in hand, in order
    ls_array,      \* the polylines built so far
    returned,      \* the MultiLineString returned
    err            \* the exception that ended the run

vars == <<pc, arg, quantization, results, root, scale_x, scale_y, offset_x, offset_y,
          ri, ei, step, coords, evals, ls_array, returned, err>>

Init ==
    /\ pc = "options"
    /\ arg \in QuantizationArgs
    /\ quantization = Unbound
    /\ results = <<>>
    /\ root = NoRoot
    /\ scale_x = Unbound /\ scale_y = Unbound
    /\ offset_x = Unbound /\ offset_y = Unbound
    /\ ri = 1 /\ ei = 1
    /\ step = 0
    /\ coords = <<>>
    /\ evals = <<>>
    /\ ls_array = <<>>
    /\ returned = <<>>
    /\ err = "none"

(***************************************************************************)
(* The viewBox transform                                                   *)
(***************************************************************************)
\* [float(s) for s in root.attrib["viewBox"].split()]
ParseViewBox(attr) == [k \in 1..4 |-> FromInt(attr[k])]

\* The divisors of scale_x and scale_y
ScaleXDivisor(viewbox) == RatSub(viewbox[3], viewbox[1])

ScaleYDivisor(viewbox) == RatSub(viewbox[4], viewbox[2])

ViewBoxTransform(w, h, viewbox) ==
    [scale_x |-> RatDiv(w, ScaleXDivisor(viewbox)),
     scale_y |-> RatDiv(h, ScaleYDivisor(viewbox)),
     offset_x |-> RatSub(FromInt(0), viewbox[1]),
     offset_y |-> RatSub(FromInt(0), viewbox[2])]

\* The else branch with scale and offset exchanged
IdentityTransformExchanged ==
    [scale_x |-> FromInt(0), scale_y |-> FromInt(0),
     offset_x |-> FromInt(1), offset_y |-> FromInt(1)]

IdentityTransform ==
    [scale_x |-> FromInt(1), scale_y |-> FromInt(1),
     offset_x |-> FromInt(0), offset_y |-> FromInt(0)]

(***************************************************************************)
(* Linearization of one segment                                            *)
(***************************************************************************)
\* The step rounded down instead of up
StepFloor(elem, q) == -Ceil(RatSub(FromInt(0), RatDiv(SegLength(elem), q)))

\* int(math.ceil(elem.length() / quantization)), for quantization # 0
Step(elem, q) == Ceil(RatDiv(SegLength(elem), q))

\* np.empty(n, dtype=complex), as a 1-based sequence
NpEmpty(n) == [j \in 1..n |-> Uninit]

\* range(step - 1) runs i over 0 .. LoopCount(step) - 1
LoopCount(s) == s - 1

\* the index written by iteration i
WriteIndex(i) == i + 1

\* The fraction taken from the loop variable itself
FractionOfLoopVariable(i, s) == Rat(i, s)

\* the parametric fraction of iteration i
Fraction(i, s) == Rat(i + 1, s)

\* The for loop from iteration i on: the array and the log of the calls of
\* elem.point.  Cell k of the array is coords[k + 1] here.
RECURSIVE FillLoop(_, _, _, _, _)
FillLoop(c, log, elem, s, i) ==
    IF i >= LoopCount(s) THEN [coords |-> c, evals |-> log]
    ELSE FillLoop([c EXCEPT ![WriteIndex(i) + 1] = Point(elem, Fraction(i, s))],
                  Append(log, [index |-> WriteIndex(i), t |-> Fraction(i, s)]),
                  elem, s, i + 1)

\* A straight line cut at its middle
LineCoordsHalved(elem) ==
    <<Start(elem), CxScale(Rat(1, 2), CxAdd(Start(elem), End(elem))), End(elem)>>

\* np.array([elem.start, elem.end])
LineCoords(elem) == <<Start(elem), End(elem)>>

\* The else branch without its last assignment
CurveCoordsEndUnset(elem, s) ==
    LET c0 == NpEmpty(s + 1)
        c1 == [c0 EXCEPT ![1] = Start(elem)]
        f  == FillLoop(c1, <<>>, elem, s, 0)
    IN  [coords |-> f.coords, evals |-> f.evals]

\* The else branch for step >= 0: the array has step + 1 >= 1 cells,
\* coords[0] is cell 1 and coords[-1] is cell step + 1.
CurveCoords(elem, s) ==
    LET c0 == NpEmpty(s + 1)
        c1 == [c0 EXCEPT ![1] = Start(elem)]
        f  == FillLoop(c1, <<>>, elem, s, 0)
    IN  [coords |-> [f.coords EXCEPT ![s + 1] = End(elem)], evals |-> f.evals]

\* The exception raised by the else branch, or "none"
CurveError(elem, q) ==
    IF q[1] = 0 THEN "ZeroDivisionError"          \* elem.length() / 0
    ELSE IF Step(elem, q) + 1 < 0 THEN "ValueError"   \* np.empty of a negative size
    ELSE IF Step(elem, q) + 1 = 0 THEN "IndexError"   \* coords[0] of an empty array
    ELSE "none"

(***************************************************************************)
(* Scaling                                                                 *)
(***************************************************************************)
\* One row of final_coords from one complex number.  Every cell of coords is
\* written before it is read (InteriorPointsEvenlySpaced below), so the first branch is
\* never taken.
ScalePoint(z, sx, sy, ox, oy) ==
    IF z = Uninit THEN <<Unbound, Unbound>>
    ELSE <<RatMul(sx, RatAdd(z[1], ox)), RatMul(sy, RatAdd(z[2], oy))>>

FinalCoords(c, sx, sy, ox, oy) == [j \in 1..Len(c) |-> ScalePoint(c[j], sx, sy, ox, oy)]

\* shapely's LineString refuses fewer than two coordinate tuples
LineStringError(fc) == IF Len(fc) < 2 THEN "ValueError" ELSE "none"

\* The polyline put in front of the list
PrependLineString(ls, fc) == <<fc>> \o ls

\* ls_array.append(...)
AppendLineString(ls, fc) == Append(ls, fc)

(***************************************************************************)
(* The steps of a run                                                      *)
(***************************************************************************)
\* The position of the next segment at or after (r, e), <<0, 0>> if none:
\* the two nested for loops.
RECURSIVE NextElem(_, _, _)
NextElem(paths, r, e) ==
    IF r > Len(paths) THEN <<0, 0>>
    ELSE IF e > Len(paths[r]) THEN NextElem(paths, r + 1, 1)
    ELSE <<r, e>>

Elem == results[ri][ei]

\* click parses --quantization before read is entered.
ParseOptions ==
    /\ pc = "options"
    /\ LET o == QuantizationOption(arg)
       IN  IF o.ok
           THEN /\ quantization' = o.value
                /\ pc' = "load"
                /\ err' = err
           ELSE /\ quantization' = quantization
                /\ pc' = "rejected"
                /\ err' = "BadParameter"
    /\ UNCHANGED <<arg, results, root, scale_x, scale_y, offset_x, offset_y, ri, ei,
                   step, coords, evals, ls_array, returned>>

\* doc = Document(file); results = doc.flatten_all_paths(); root = ...
LoadDocument ==
    /\ pc = "load"
    /\ \E f \in Files :
        /\ results' = f[1]
        /\ root' = f[2]
    /\ pc' = "transform"
    /\ UNCHANGED <<arg, quantization, scale_x, scale_y, offset_x, offset_y, ri, ei,
                   step, coords, evals, ls_array, returned, err>>

\* The if / else on "viewBox" in root.attrib, then ls_array = []
ResolveTransform ==
    /\ pc = "transform"
    /\ IF root.hasViewBox
       THEN LET w == convert(root.width)
                h == convert(root.height)
                viewbox == ParseViewBox(root.viewBox)
            IN  IF ScaleXDivisor(viewbox)[1] = 0 \/ ScaleYDivisor(viewbox)[1] = 0
                THEN /\ pc' = "error"
                     /\ err' = "ZeroDivisionError"
                     /\ UNCHANGED <<scale_x, scale_y, offset_x, offset_y>>
                ELSE LET t == ViewBoxTransform(w, h, viewbox)
                     IN  /\ scale_x' = t.scale_x
                         /\ scale_y' = t.scale_y
                         /\ offset_x' = t.offset_x
                         /\ offset_y' = t.offset_y
                         /\ pc' = "loop"
                         /\ err' = err
       ELSE /\ scale_x' = IdentityTransform.scale_x
            /\ scale_y' = IdentityTransform.scale_y
            /\ offset_x' = IdentityTransform.offset_x
            /\ offset_y' = IdentityTransform.offset_y
            /\ pc' = "loop"
            /\ err' = err
    /\ UNCHANGED <<arg, quantization, results, root, ri, ei, step, coords, evals,
                   ls_array, returned>>

\* The next segment of the loops: coords as a complex array
Linearize ==
    /\ pc = "loop"
    /\ NextElem(results, ri, ei) # <<0, 0>>
    /\ LET pos == NextElem(results, ri, ei)
           elem == results[pos[1]][pos[2]]
       IN  /\ ri' = pos[1]
           /\ ei' = pos[2]
           /\ IF IsLine(elem)
              THEN /\ coords' = LineCoords(elem)
                   /\ pc' = "scale"
                   /\ UNCHANGED <<step, evals, err>>
              ELSE IF CurveError(elem, quantization) # "none"
              THEN /\ pc' = "error"
                   /\ err' = CurveError(elem, quantization)
                   /\ UNCHANGED <<step, coords, evals>>
              ELSE LET c == CurveCoords(elem, Step(elem, quantization))
                   IN  /\ step' = Step(elem, quantization)
                       /\ coords' = c.coords
                       /\ evals' = c.evals
                       /\ pc' = "scale"
                       /\ err' = err
    /\ UNCHANGED <<arg, quantization, results, root, scale_x, scale_y, offset_x,
                   offset_y, ls_array, returned>>

\* final_coords and ls_array.append(LineString(final_coords))
ScaleAppend ==
    /\ pc = "scale"
    /\ LET fc == FinalCoords(coords, scale_x, scale_y, offset_x, offset_y)
       IN  IF LineStringError(fc) # "none"
           THEN /\ pc' = "error"
                /\ err' = LineStringError(fc)
                /\ UNCHANGED <<ls_array, ei>>
           ELSE /\ ls_array' = AppendLineString(ls_array, fc)
                /\ ei' = ei + 1
                /\ pc' = "loop"
                /\ err' = err
    /\ UNCHANGED <<arg, quantization, results, root, scale_x, scale_y, offset_x,
                   offset_y, ri, step, coords, evals, returned>>

\* return MultiLineString(ls_array)
Return ==
    /\ pc = "loop"
    /\ NextElem(results, ri, ei) = <<0, 0>>
    /\ returned' = ls_array
    /\ pc' = "returned"
    /\ UNCHANGED <<arg, quantization, results, root, scale_x, scale_y, offset_x,
                   offset_y, ri, ei, step, coords, evals, ls_array, err>>

Next ==
    \/ ParseOptions
    \/ LoadDocument
    \/ ResolveTransform
    \/ Linearize
    \/ ScaleAppend
    \/ Return

Spec == Init /\ [][Next]_vars

(***************************************************************************)
(* Properties                                                              *)
(***************************************************************************)
RatLeq(a, b) == a[1] * b[2] <= b[1] * a[2]

RatLess(a, b) == a[1] * b[2] < b[1] * a[2]

\* The transform has been resolved
Resolved == scale_x # Unbound

\* A segment is in hand, linearized and not yet scaled
InHand == pc = "scale"

CurveInHand == InHand /\ ~IsLine(Elem)

LineInHand == InHand /\ IsLine(Elem)

\* n is the least integer with n * q >= L
IsCeilOfQuotient(n, L, q) ==
    /\ RatLeq(L, RatMul(FromInt(n), q))
    /\ RatLess(RatMul(FromInt(n - 1), q), L)

\* C1: with a viewBox [minX, minY, vbWidth, vbHeight] and width, height
\* resolving to w, h, the resolved transform is scale_x = w / vbWidth,
\* scale_y = h / vbHeight, offset_x = -minX, offset_y = -minY.
ViewBoxTransformAsSpecified ==
    (Resolved /\ root.hasViewBox) =>
        LET vb == root.viewBox
            w  == convert(root.width)
            h  == convert(root.height)
        IN  /\ vb[3] # 0 /\ vb[4] # 0
            /\ scale_x = RatDiv(w, FromInt(vb[3]))
            /\ scale_y = RatDiv(h, FromInt(vb[4]))
            /\ offset_x = FromInt(-vb[1])
            /\ offset_y = FromInt(-vb[2])

\* C2: a viewBox with vbWidth = 0 or vbHeight = 0 ends the run in a
\* division by zero with nothing returned, and a viewBox with both non-zero
\* never ends the run in a division by zero.
ZeroDivisionIffDegenerateViewBox ==
    (root.hasViewBox /\ pc \notin {"options", "load", "transform"}) =>
        IF root.viewBox[3] = 0 \/ root.viewBox[4] = 0
        THEN pc = "error" /\ err = "ZeroDivisionError" /\ returned = <<>>
        ELSE err # "ZeroDivisionError"

CurveEndpointsExact ==
    CurveInHand =>
        /\ coords[1] = Start(Elem)
        /\ coords[Len(coords)] = End(Elem)

CurveEndpointsExactWitness ==
    CurveInHand /\ Start(Elem) # End(Elem) /\ Len(coords) >= 3
        /\ coords[1] = Start(Elem) /\ coords[Len(coords)] = End(Elem)

\* C5: every polyline appended has at least 2 points: the step of a curved
\* segment is at least 1 and the array handed to LineString has at least 2
\* rows.
PolylineHasTwoPoints ==
    /\ InHand => Len(coords) >= 2
    /\ CurveInHand => step >= 1
    /\ \A k \in DOMAIN ls_array : Len(ls_array[k]) >= 2

\* The polyline of one segment under the resolved transform
PolylineOf(elem) ==
    FinalCoords(IF IsLine(elem) THEN LineCoords(elem)
                ELSE CurveCoords(elem, Step(elem, quantization)).coords,
                scale_x, scale_y, offset_x, offset_y)

\* C6: the collection returned holds one polyline per segment of the
\* flattened paths, path by path and segment by segment; a document without
\* segments gives the empty collection.
OnePolylinePerSegment ==
    pc = "returned" =>
        LET segs == Flatten(results)
        IN  /\ Len(returned) = Len(segs)
            /\ \A k \in DOMAIN segs : returned[k] = PolylineOf(segs[k])

OnePolylinePerSegmentWitness ==
    /\ pc = "returned"
    /\ Len(results) = 2
    /\ Len(returned) = 2
    /\ returned[1] # returned[2]
    /\ Len(results[1]) = 1

\* C7: a quantization of zero or less is rejected before the document is
\* read: nothing is loaded, no segment is processed, nothing is returned.
NonPositiveQuantizationRejected ==
    arg.n <= 0 =>
        /\ pc \in {"options", "rejected"}
        /\ quantization = Unbound
        /\ results = <<>> /\ coords = <<>> /\ ls_array = <<>> /\ returned = <<>>

NonPositiveQuantizationRejectedWitness ==
    arg.n <= 0 /\ pc = "rejected" /\ err = "BadParameter"

\* C8: without a viewBox the transform is scale 1 and offset 0 whatever width
\* and height are, and every polyline appended equals the linearized points.
NoViewBoxIdentity ==
    (Resolved /\ ~root.hasViewBox) =>
        /\ scale_x = FromInt(1) /\ scale_y = FromInt(1)
        /\ offset_x = FromInt(0) /\ offset_y = FromInt(0)
        /\ (pc \in {"loop", "returned"} /\ ls_array # <<>>)
              => ls_array[Len(ls_array)] = coords

NoViewBoxIdentityWitness ==
    /\ ~root.hasViewBox
    /\ root.width # root.height
    /\ pc = "loop"
    /\ ls_array # <<>>
    /\ Len(coords) >= 3
    /\ ls_array[Len(ls_array)] = coords

\* C9: a straight line yields its start then its end and nothing else,
\* whatever the quantization and its length.
LineYieldsItsTwoEndpoints ==
    LineInHand => coords = <<Start(Elem), End(Elem)>>

LineYieldsItsTwoEndpointsWitness ==
    /\ LineInHand
    /\ Dist2(Elem.start, Elem.end) > 1
    /\ quantization = FromInt(1)
    /\ coords = <<Start(Elem), End(Elem)>>

\* C10: for a curved segment with step >= 2, point i, for i in 1 .. step-1,
\* is the segment at fraction i / step; the loop writes each of these indices
\* once, leaves no cell unwritten and never evaluates fraction 0 or 1.
InteriorPointsEvenlySpaced ==
    (CurveInHand /\ step >= 2) =>
        /\ Len(coords) = step + 1
        /\ \A i \in 1..(step - 1) :
              /\ coords[i + 1] = Point(Elem, Rat(i, step))
              /\ Cardinality({k \in DOMAIN evals : evals[k].index = i}) = 1
        /\ \A j \in DOMAIN coords : coords[j] # Uninit
        /\ \A k \in DOMAIN evals :
              /\ evals[k].t # FromInt(0)
              /\ evals[k].t # FromInt(1)
              /\ evals[k].index \in 1..(step - 1)

InteriorPointsEvenlySpacedWitness ==
    /\ CurveInHand
    /\ step = 3
    /\ Len(evals) = 2
    /\ coords[2] # coords[3]
    /\ coords[2] = Point(Elem, Rat(1, 3))

====
